---- MODULE Spec2Model ----
(***************************************************************************)
(* A model of the two-model LLM comparison page: src/src/main.js           *)
(* (compareResponses, callModel, displayResults, highlightDifferences)     *)
(* and src/unnamed/part_000 (escapeHtml, displayError).                    *)
(*                                                                         *)
(* Three specifications share the module:                                  *)
(*   Spec      the click handler, the two concurrent callModel calls of    *)
(*             each run, Promise.all, and the writes to the DOM slots;     *)
(*   SpecNorm  the response parsing of callModel as a pure function of    *)
(*             the decoded body;                                           *)
(*   SpecHL    highlightDifferences as a pure function of two texts.       *)
(*                                                                         *)
(* A JavaScript string is a sequence of one-character strings.  A value    *)
(* that may be a string, a number or undefined is a record [t, n, s].      *)
(***************************************************************************)
EXTENDS Integers, Sequences, FiniteSets, TLC

VARIABLES
  dom,         \* the DOM: loading/results display and the four slots
  runs,        \* one record per started compareResponses invocation
  fetchCount,  \* number of fetch() calls issued so far
  form,        \* the values of the seven form fields
  last,        \* the handler that ran last, and for which run
  data,        \* SpecNorm: the decoded JSON body given to callModel's parsing
  parsed,      \* SpecNorm: what the parsing produced
  text1,       \* SpecHL: first argument of highlightDifferences
  text2,       \* SpecHL: second argument of highlightDifferences
  hl           \* SpecHL: what highlightDifferences produced

vars == <<dom, runs, fetchCount, form, last, data, parsed, text1, text2, hl>>

----------------------------------------------------------------------------
(* Bounds *)

MaxLen == 3

MaxTok == 2

MaxRuns == 2

MaxFormRuns == 1

MaxEmpty == 1

----------------------------------------------------------------------------
(* JavaScript values *)

Undef == [t |-> "undef", n |-> 0, s |-> <<>>]

Num(k) == [t |-> "num", n |-> k, s |-> <<>>]

Str(x) == [t |-> "str", n |-> 0, s |-> x]

\* ToBoolean: undefined, 0 and '' are falsy
Truthy(v) == \/ v.t = "num" /\ v.n # 0
             \/ v.t = "str" /\ v.s # <<>>

\* v || 0
OrZero(v) == IF Truthy(v) THEN v ELSE Num(0)

Max(a, b) == IF a >= b THEN a ELSE b

----------------------------------------------------------------------------
(* Texts *)

Alphabet == {"a", "b", "c", " ", "<"}

\* the characters matched by \s (of the alphabet)
IsWs(ch) == ch = " "

SeqsUpTo(S, n) == UNION {[1..k -> S] : k \in 0..n}

Texts == SeqsUpTo(Alphabet, MaxLen)

RECURSIVE Concat(_)
Concat(ss) == IF ss = <<>> THEN <<>> ELSE Head(ss) \o Concat(Tail(ss))

----------------------------------------------------------------------------
(* escapeHtml: the serialisation of a text node (div.textContent = text;   *)
(* div.innerHTML) replaces &, < and >, and leaves quotes as they are.      *)

EscapeChar(ch) ==
  CASE ch = "&" -> <<"&", "a", "m", "p", ";">>
    [] ch = "<" -> <<"&", "l", "t", ";">>
    [] ch = ">" -> <<"&", "g", "t", ";">>
    [] OTHER    -> <<ch>>

escapeHtml(text) == Concat([i \in 1..Len(text) |-> EscapeChar(text[i])])

----------------------------------------------------------------------------
(* text.split(/(\s+)/): the runs of non-whitespace, with every whitespace  *)
(* run kept as a token of its own between them.  A text that starts or     *)
(* ends with whitespace gets an empty first or last token; '' gives [''].  *)

\* the first index >= i of s that holds no whitespace (Len(s) + 1 if none)
RECURSIVE WsEnd(_, _)
WsEnd(s, i) == IF i > Len(s) \/ ~IsWs(s[i]) THEN i ELSE WsEnd(s, i + 1)

RECURSIVE SplitFrom(_, _, _, _)
SplitFrom(s, i, cur, acc) ==
  IF i > Len(s) THEN Append(acc, cur)
  ELSE IF IsWs(s[i])
       THEN LET j == WsEnd(s, i)
            IN  SplitFrom(s, j, <<>>, acc \o <<cur, SubSeq(s, i, j - 1)>>)
       ELSE SplitFrom(s, i + 1, Append(cur, s[i]), acc)

split(s) == SplitFrom(s, 1, <<>>, <<>>)

----------------------------------------------------------------------------
(* highlightDifferences.  The markup is a sequence of units: a character   *)
(* of escaped text, or one of the three tags below.  Escaped text holds no *)
(* "<", so the tags of the real string are exactly these units.            *)

RemovedOpen == "<span class=\"diff-removed\">"

AddedOpen == "<span class=\"diff-added\">"

SpanClose == "</span>"

\* words[i] || ''   (i counted from 1 here)
WordAt(words, i) == IF i <= Len(words) THEN words[i] ELSE <<>>

\* what one pass of the loop body appends to highlighted1 and highlighted2;
\* wrapEmpty is FALSE in the source (the tests `if (word1)`, `if (word2)`)
LoopBody(word1, word2, wrapEmpty) ==
  IF word1 # word2
  THEN [h1 |-> IF word1 # <<>> \/ wrapEmpty
               THEN <<RemovedOpen>> \o escapeHtml(word1) \o <<SpanClose>>
               ELSE <<>>,
        h2 |-> IF word2 # <<>> \/ wrapEmpty
               THEN <<AddedOpen>> \o escapeHtml(word2) \o <<SpanClose>>
               ELSE <<>>]
  ELSE [h1 |-> escapeHtml(word1), h2 |-> escapeHtml(word2)]

\* the for loop over i < length, on two token arrays
HighlightLoop(words1, words2, length, wrapEmpty) ==
  LET step == [i \in 1..length |->
                 LoopBody(WordAt(words1, i), WordAt(words2, i), wrapEmpty)]
  IN  [threw |-> FALSE,
       h1 |-> Concat([i \in 1..length |-> step[i].h1]),
       h2 |-> Concat([i \in 1..length |-> step[i].h2])]

\* text.split on a value that is no string throws a TypeError
HighlightThrew == [threw |-> TRUE, h1 |-> <<>>, h2 |-> <<>>]

Min(a, b) == IF a <= b THEN a ELSE b

\* a slip: the loop stops at the shorter token array
highlightDifferences_MinLength(t1, t2) ==
  IF t1.t # "str" \/ t2.t # "str" THEN HighlightThrew
  ELSE LET words1 == split(t1.s)
           words2 == split(t2.s)
       IN  HighlightLoop(words1, words2, Min(Len(words1), Len(words2)), FALSE)

\* a slip: the tests `if (word1)` and `if (word2)` are left out
highlightDifferences_WrapEmpty(t1, t2) ==
  IF t1.t # "str" \/ t2.t # "str" THEN HighlightThrew
  ELSE LET words1 == split(t1.s)
           words2 == split(t2.s)
       IN  HighlightLoop(words1, words2, Max(Len(words1), Len(words2)), TRUE)

highlightDifferences(t1, t2) ==
  IF t1.t # "str" \/ t2.t # "str" THEN HighlightThrew
  ELSE LET words1 == split(t1.s)
           words2 == split(t2.s)
           maxLength == Max(Len(words1), Len(words2))
       IN  HighlightLoop(words1, words2, maxLength, FALSE)

----------------------------------------------------------------------------
(* callModel, after `await response.json()`: the parsing of the decoded    *)
(* body.  A body is a record: isNull (the JSON value null), message        *)
(* (data.choices[0].message, when choices, choices[0] and it are truthy),  *)
(* block (data.content[0], when content and it are truthy) and usage.      *)

NoMessage == [present |-> FALSE, content |-> Undef]

NoBlock == [present |-> FALSE, text |-> Undef]

NoUsage == [present |-> FALSE, prompt_tokens |-> Undef,
            completion_tokens |-> Undef, total_tokens |-> Undef,
            input_tokens |-> Undef, output_tokens |-> Undef]

NullBody == [isNull |-> TRUE, message |-> NoMessage, block |-> NoBlock,
             usage |-> NoUsage]

Body(m, b, u) == [isNull |-> FALSE, message |-> m, block |-> b, usage |-> u]

ErrFormat == "Unexpected response format"

ErrTypeNull == "TypeError: Cannot read properties of null (reading 'choices')"

ErrTypeSplit == "TypeError: Cannot read properties of undefined (reading 'split')"

ErrNetwork == "Failed to fetch"

ErrHttp == "HTTP 500: Internal Server Error"

Threw(msg) == [ok |-> FALSE, error |-> msg, content |-> Undef,
               promptTokens |-> Num(0), completionTokens |-> Num(0),
               totalTokens |-> Num(0)]

Returned(c, p, k, t) == [ok |-> TRUE, error |-> "", content |-> c,
                         promptTokens |-> p, completionTokens |-> k,
                         totalTokens |-> t]

\* a slip: the choice-style total is recomputed from its two components
ParseResponse_SumTotal(d) ==
  IF d.isNull THEN Threw(ErrTypeNull)
  ELSE IF d.message.present
  THEN IF d.usage.present
       THEN Returned(d.message.content,
                     OrZero(d.usage.prompt_tokens),
                     OrZero(d.usage.completion_tokens),
                     Num(OrZero(d.usage.prompt_tokens).n
                         + OrZero(d.usage.completion_tokens).n))
       ELSE Returned(d.message.content, Num(0), Num(0), Num(0))
  ELSE IF d.block.present /\ Truthy(d.block.text)
  THEN IF d.usage.present
       THEN Returned(d.block.text,
                     OrZero(d.usage.input_tokens),
                     OrZero(d.usage.output_tokens),
                     Num(OrZero(d.usage.input_tokens).n
                         + OrZero(d.usage.output_tokens).n))
       ELSE Returned(d.block.text, Num(0), Num(0), Num(0))
  ELSE Threw(ErrFormat)

ParseResponse(d) ==
  IF d.isNull THEN Threw(ErrTypeNull)
  ELSE IF d.message.present
  THEN \* OpenAI format
       IF d.usage.present
       THEN Returned(d.message.content,
                     OrZero(d.usage.prompt_tokens),
                     OrZero(d.usage.completion_tokens),
                     OrZero(d.usage.total_tokens))
       ELSE Returned(d.message.content, Num(0), Num(0), Num(0))
  ELSE IF d.block.present /\ Truthy(d.block.text)
  THEN \* Anthropic format
       IF d.usage.present
       THEN Returned(d.block.text,
                     OrZero(d.usage.input_tokens),
                     OrZero(d.usage.output_tokens),
                     Num(OrZero(d.usage.input_tokens).n
                         + OrZero(d.usage.output_tokens).n))
       ELSE Returned(d.block.text, Num(0), Num(0), Num(0))
  ELSE Threw(ErrFormat)

----------------------------------------------------------------------------
(* The DOM and the state of the page before the first click *)

EmptySlot == [kind |-> "empty", run |-> 0, body |-> <<>>]

InitDom == [loading |-> "none", results |-> "none",
            metrics1 |-> EmptySlot, metrics2 |-> EmptySlot,
            response1 |-> EmptySlot, response2 |-> EmptySlot]

FieldNames == {"endpoint1", "endpoint2", "apikey1", "apikey2",
               "model1", "model2", "prompt"}

FilledFields == [f \in FieldNames |-> "x"]

InitLast == [op |-> "load", run |-> 0]

InitPage == /\ dom = InitDom
            /\ runs = <<>>
            /\ fetchCount = 0
            /\ form = FilledFields
            /\ last = InitLast

NotParsed == [done |-> FALSE, res |-> Threw("")]

NotHighlighted == [done |-> FALSE, res |-> HighlightThrew]

----------------------------------------------------------------------------
(* displayError and displayResults, as functions of the DOM.  A slot holds *)
(* its kind of content, the run that wrote it and the content: a metrics   *)
(* slot the three token counts, a response slot markup units, text or the  *)
(* error message.                                                          *)

ErrPrefix == "Error comparing responses: "

ErrorPanel(r, message) == [kind |-> "error", run |-> r, body |-> <<message>>]

\* a slip: the second response slot is not cleared
displayError_KeepResponse2(d, r, message) ==
  [d EXCEPT !.metrics1 = EmptySlot,
            !.metrics2 = EmptySlot,
            !.response1 = ErrorPanel(r, message),
            !.results = "block"]

displayError(d, r, message) ==
  [d EXCEPT !.metrics1 = EmptySlot,
            !.metrics2 = EmptySlot,
            !.response1 = ErrorPanel(r, message),
            !.response2 = EmptySlot,
            !.results = "block"]

MetricsOf(r, result) ==
  [kind |-> "metrics", run |-> r,
   body |-> <<result.promptTokens.n, result.completionTokens.n,
              result.totalTokens.n>>]

\* element.textContent = v: undefined is written as the empty string
TextOf(r, v) == [kind |-> "text", run |-> r,
                 body |-> IF v.t = "str" THEN v.s ELSE <<>>]

MarkupOf(r, m) == [kind |-> "html", run |-> r, body |-> m]

\* the DOM displayResults leaves, and whether it threw on the way
displayResults(d, r, result1, result2, highlightEnabled) ==
  LET d1 == [d EXCEPT !.metrics1 = MetricsOf(r, result1),
                      !.metrics2 = MetricsOf(r, result2)]
  IN  IF highlightEnabled
      THEN LET h == highlightDifferences(result1.content, result2.content)
           IN  IF h.threw
               THEN [dom |-> d1, threw |-> TRUE, error |-> ErrTypeSplit]
               ELSE [dom |-> [d1 EXCEPT !.response1 = MarkupOf(r, h.h1),
                                        !.response2 = MarkupOf(r, h.h2),
                                        !.results = "block"],
                     threw |-> FALSE, error |-> ""]
      ELSE [dom |-> [d1 EXCEPT !.response1 = TextOf(r, result1.content),
                               !.response2 = TextOf(r, result2.content),
                               !.results = "block"],
            threw |-> FALSE, error |-> ""]

----------------------------------------------------------------------------
(* compareResponses.  A run is one invocation that passed the validation:  *)
(* pc is "awaiting" while it waits on Promise.all and "done" afterwards;   *)
(* each of its two callModel calls is fetching, reading (the body, after   *)
(* an ok status), returned or threw.                                       *)

NoResult == Threw("")

NewCall == [st |-> "fetching", res |-> NoResult]

NewRun == [pc |-> "awaiting", outcome |-> "none", error |-> "",
           calls |-> <<NewCall, NewCall>>]

\* a slip: the prompt is not validated
AllFilled_NoPrompt(f) == \A n \in FieldNames \ {"prompt"} : f[n] # ""

\* !endpoint1 || ... || !prompt is false
AllFilled(f) == \A n \in FieldNames : f[n] # ""

\* a slip: a rejection is not propagated, the join waits for both to settle
PromiseAll_IgnoreRejection(calls) ==
  IF \A k \in 1..2 : calls[k].st \in {"returned", "threw"} THEN "fulfilled"
  ELSE "pending"

\* a slip: a race, fulfilled by the first call that returns
PromiseAll_Race(calls) ==
  IF \E k \in 1..2 : calls[k].st = "threw" THEN "rejected"
  ELSE IF \E k \in 1..2 : calls[k].st = "returned" THEN "fulfilled"
  ELSE "pending"

\* Promise.all: rejected by the first rejection, fulfilled when all are
PromiseAll(calls) ==
  IF \E k \in 1..2 : calls[k].st = "threw" THEN "rejected"
  ELSE IF \A k \in 1..2 : calls[k].st = "returned" THEN "fulfilled"
  ELSE "pending"

\* the click handler up to `await Promise.all`: the fields are read and
\* validated, the loading state is shown, and both callModel calls run up
\* to their `await fetch`
compareResponses ==
  IF ~AllFilled(form)
  THEN /\ last' = [op |-> "alert", run |-> 0]
       /\ UNCHANGED <<dom, runs, fetchCount, form>>
  ELSE /\ dom' = [dom EXCEPT !.loading = "block", !.results = "none"]
       /\ runs' = Append(runs, NewRun)
       /\ fetchCount' = fetchCount + 2
       /\ last' = [op |-> "compare", run |-> Len(runs) + 1]
       /\ UNCHANGED form

\* call k of run r settles as c; when that settles Promise.all of a run
\* still awaiting, the rest of compareResponses (try, catch, finally) runs
\* in the same turn of the event loop
Resume(r, k, c) ==
  LET run == runs[r]
      calls == [run.calls EXCEPT ![k] = c]
      all == PromiseAll(calls)
      hide(d) == [d EXCEPT !.loading = "none"]
      settled == [j \in 1..2 |-> [st |-> calls[j].st, res |-> NoResult]]
      failed(message) ==
        [pc |-> "done", outcome |-> "error", error |-> message,
         calls |-> settled]
  IN  IF run.pc = "done"
      THEN \* nobody awaits the call any more: its value is dropped
           /\ runs' = [runs EXCEPT ![r].calls[k] = [st |-> c.st, res |-> NoResult]]
           /\ last' = [op |-> "settle", run |-> r]
           /\ UNCHANGED dom
      ELSE IF all = "pending"
      THEN /\ runs' = [runs EXCEPT ![r].calls = calls]
           /\ last' = [op |-> "settle", run |-> r]
           /\ UNCHANGED dom
      ELSE IF all = "rejected"
      THEN LET reason == IF c.st = "threw" THEN c.res.error
                         ELSE calls[3 - k].res.error
               message == ErrPrefix \o reason
           IN  /\ dom' = hide(displayError(dom, r, message))
               /\ runs' = [runs EXCEPT ![r] = failed(message)]
               /\ last' = [op |-> "error", run |-> r]
      ELSE \E highlightEnabled \in BOOLEAN :
             LET shown == displayResults(dom, r, calls[1].res, calls[2].res,
                                         highlightEnabled)
                 message == ErrPrefix \o shown.error
             IN  IF shown.threw
                 THEN /\ dom' = hide(displayError(shown.dom, r, message))
                      /\ runs' = [runs EXCEPT ![r] = failed(message)]
                      /\ last' = [op |-> "error", run |-> r]
                 ELSE /\ dom' = hide(shown.dom)
                      /\ runs' = [runs EXCEPT ![r] =
                                    [pc |-> "done", outcome |-> "displayed",
                                     error |-> "", calls |-> settled]]
                      /\ last' = [op |-> "displayed", run |-> r]

\* callModel, `await fetch`: a network failure, a non-ok status, or an ok
\* status after which the body is read
FetchSettle(r, k) ==
  /\ runs[r].calls[k].st = "fetching"
  /\ \E c \in {[st |-> "threw", res |-> Threw(ErrNetwork)],
               [st |-> "threw", res |-> Threw(ErrHttp)],
               [st |-> "reading", res |-> NoResult]} :
        Resume(r, k, c)
  /\ UNCHANGED <<fetchCount, form>>

\* the bodies the endpoints answer with: a block-style reply with usage,
\* a choice-style message that carries no content, and {}
BlockUsage == [NoUsage EXCEPT !.present = TRUE, !.input_tokens = Num(1),
                              !.output_tokens = Num(1)]

PageBodies ==
  { Body(NoMessage, [present |-> TRUE, text |-> Str(<<"a", " ", "<">>)], BlockUsage),
    Body([present |-> TRUE, content |-> Undef], NoBlock, NoUsage),
    Body(NoMessage, NoBlock, NoUsage) }

\* callModel, `await response.json()` and the parsing after it
JsonSettle(r, k) ==
  /\ runs[r].calls[k].st = "reading"
  /\ \E body \in PageBodies :
        LET res == ParseResponse(body)
        IN  Resume(r, k, [st |-> IF res.ok THEN "returned" ELSE "threw",
                          res |-> res])
  /\ UNCHANGED <<fetchCount, form>>

Init == /\ InitPage
        /\ data = NullBody /\ parsed = NotParsed
        /\ text1 = Undef /\ text2 = Undef /\ hl = NotHighlighted

\* a click on the compare button; at most `limit` runs are started
ClickWith(limit) ==
  /\ Len(runs) < limit \/ \E n \in FieldNames : form[n] = ""
  /\ compareResponses
  /\ UNCHANGED <<data, parsed, text1, text2, hl>>

Click == ClickWith(MaxRuns)

Settle == /\ \E r \in 1..Len(runs), k \in 1..2 :
               FetchSettle(r, k) \/ JsonSettle(r, k)
          /\ UNCHANGED <<data, parsed, text1, text2, hl>>

Next == Click \/ Settle

Spec == Init /\ [][Next]_vars

\* SpecForm: the same page, with the user clearing and filling form fields
\* between the clicks; at most MaxEmpty fields are empty at a time
Edit == /\ \E n \in FieldNames :
             /\ form' = [form EXCEPT ![n] = IF form[n] = "" THEN "x" ELSE ""]
             /\ Cardinality({m \in FieldNames : form'[m] = ""}) <= MaxEmpty
        /\ last' = [op |-> "edit", run |-> 0]
        /\ UNCHANGED <<dom, runs, fetchCount, data, parsed, text1, text2, hl>>

ClickForm == ClickWith(MaxFormRuns)

NextForm == Edit \/ ClickForm \/ Settle

SpecForm == Init /\ [][NextForm]_vars

----------------------------------------------------------------------------
(* SpecNorm: the parsing applied to every body of a bounded set *)

ContentVals == {Undef, Str(<<>>), Str(<<"a">>)}

TokVals == {Undef} \cup {Num(k) : k \in 0..MaxTok}

Messages == {NoMessage} \cup {[present |-> TRUE, content |-> c] : c \in ContentVals}

Blocks == {NoBlock} \cup {[present |-> TRUE, text |-> c] : c \in ContentVals}

Usages == {NoUsage} \cup
          [present : {TRUE}, prompt_tokens : TokVals, completion_tokens : TokVals,
           total_tokens : TokVals, input_tokens : TokVals, output_tokens : TokVals]

Bodies == {NullBody} \cup {Body(m, b, u) : m \in Messages, b \in Blocks, u \in Usages}

InitNorm == /\ InitPage
            /\ data \in Bodies
            /\ parsed = NotParsed
            /\ text1 = Undef /\ text2 = Undef /\ hl = NotHighlighted

Parse == /\ ~parsed.done
         /\ parsed' = [done |-> TRUE, res |-> ParseResponse(data)]
         /\ UNCHANGED <<dom, runs, fetchCount, form, last, data, text1, text2, hl>>

NextNorm == Parse

SpecNorm == InitNorm /\ [][NextNorm]_vars

----------------------------------------------------------------------------
(* SpecHL: highlightDifferences applied to every pair of a bounded set *)

TextVals == {Undef} \cup {Str(t) : t \in Texts}

InitHL == /\ InitPage
          /\ data = NullBody /\ parsed = NotParsed
          /\ text1 \in TextVals
          /\ text2 \in TextVals
          /\ hl = NotHighlighted

Highlight == /\ ~hl.done
             /\ hl' = [done |-> TRUE, res |-> highlightDifferences(text1, text2)]
             /\ UNCHANGED <<dom, runs, fetchCount, form, last, data, parsed, text1, text2>>

NextHL == Highlight

SpecHL == InitHL /\ [][NextHL]_vars

----------------------------------------------------------------------------
(* Reading markup back: the units outside and inside the marker spans *)

IsTag(u) == u \in {RemovedOpen, AddedOpen, SpanClose}

\* the markup with its marker tags removed
RECURSIVE StripMarkers(_)
StripMarkers(m) ==
  IF m = <<>> THEN <<>>
  ELSE IF IsTag(Head(m)) THEN StripMarkers(Tail(m))
  ELSE <<Head(m)>> \o StripMarkers(Tail(m))

\* the first index >= i of m that holds a closing tag (Len(m) + 1 if none)
RECURSIVE CloseAt(_, _)
CloseAt(m, i) == IF i > Len(m) \/ m[i] = SpanClose THEN i ELSE CloseAt(m, i + 1)

\* the contents of the spans opened by tag `open`, in order
RECURSIVE MarkedFrom(_, _, _)
MarkedFrom(m, i, open) ==
  IF i > Len(m) THEN <<>>
  ELSE IF m[i] = open
       THEN LET j == CloseAt(m, i + 1)
            IN  <<SubSeq(m, i + 1, j - 1)>> \o MarkedFrom(m, j + 1, open)
       ELSE MarkedFrom(m, i + 1, open)

\* the units outside every span
RECURSIVE UnmarkedFrom(_, _)
UnmarkedFrom(m, i) ==
  IF i > Len(m) THEN <<>>
  ELSE IF m[i] \in {RemovedOpen, AddedOpen}
       THEN UnmarkedFrom(m, CloseAt(m, i + 1) + 1)
       ELSE <<m[i]>> \o UnmarkedFrom(m, i + 1)

HasTag(m) == \E i \in 1..Len(m) : IsTag(m[i])

\* the tokens of `mine` at the positions where the other side's token differs
\* and mine is not empty (differ = TRUE), or where the two are equal
RECURSIVE TokensWhere(_, _, _, _)
TokensWhere(mine, other, i, differ) ==
  IF i > Max(Len(mine), Len(other)) THEN <<>>
  ELSE LET a == WordAt(mine, i)
           b == WordAt(other, i)
           take == IF differ THEN a # b /\ a # <<>> ELSE a = b
       IN  (IF take THEN <<escapeHtml(a)>> ELSE <<>>)
             \o TokensWhere(mine, other, i + 1, differ)

----------------------------------------------------------------------------
(* Claims about callModel's parsing (SpecNorm) *)

MatchesShapeA(d) == ~d.isNull /\ d.message.present /\ d.message.content.t = "str"

MatchesShapeB(d) == ~d.isNull /\ d.block.present /\ d.block.text.t = "str"

\* C5: the parsing succeeds exactly on the bodies of Shape A or Shape B (the
\* content string may be empty) and then returns that string; every other
\* body fails with 'Unexpected response format'.
C5_NormalizeIffShape ==
  parsed.done =>
    /\ parsed.res.ok <=> (MatchesShapeA(data) \/ MatchesShapeB(data))
    /\ parsed.res.ok /\ MatchesShapeA(data) =>
         parsed.res.content = data.message.content
    /\ parsed.res.ok /\ ~MatchesShapeA(data) /\ MatchesShapeB(data) =>
         parsed.res.content = data.block.text
    /\ ~parsed.res.ok => parsed.res.error = ErrFormat

\* a token field as supplied, 0 when it is missing
Supplied(v) == IF v.t = "undef" THEN Num(0) ELSE v

----------------------------------------------------------------------------
(* Claims about highlightDifferences (SpecHL) *)

\* C7: highlightDifferences succeeds on every pair of inputs, an absent
\* (undefined) text being treated as the empty string.
C7_HighlightAlwaysSucceeds ==
  hl.done =>
    /\ ~hl.res.threw
    /\ LET asText(v) == IF v.t = "str" THEN v ELSE Str(<<>>)
       IN  hl.res = highlightDifferences(asText(text1), asText(text2))

\* C8: with the marker tags removed, output 1 is escapeHtml(text1) and
\* output 2 is escapeHtml(text2).
C8_StripGivesEscaped ==
  hl.done /\ ~hl.res.threw =>
    /\ StripMarkers(hl.res.h1) = escapeHtml(text1.s)
    /\ StripMarkers(hl.res.h2) = escapeHtml(text2.s)

\* token arrays of different lengths, leading whitespace, an escaped
\* character, and a marker on each side
C8_Witness ==
  /\ hl.done /\ ~hl.res.threw
  /\ text1 = Str(<<" ", "<">>)
  /\ text2 = Str(<<"a">>)
  /\ Len(split(text1.s)) # Len(split(text2.s))
  /\ HasTag(hl.res.h1) /\ HasTag(hl.res.h2)

\* C9: the comparison is by position.  The spans of output 1 are the escaped
\* tokens of text 1 that differ from the token of text 2 at the same index
\* and are not empty, in order; likewise for output 2; what is outside the
\* spans is the escaped equal tokens; no span is empty; equal texts give
\* equal outputs without tags; "a b" against "a c" marks only "b" and "c".
C9_PositionalMarking ==
  hl.done /\ ~hl.res.threw =>
    LET w1 == split(text1.s)
        w2 == split(text2.s)
        m1 == MarkedFrom(hl.res.h1, 1, RemovedOpen)
        m2 == MarkedFrom(hl.res.h2, 1, AddedOpen)
    IN  /\ m1 = TokensWhere(w1, w2, 1, TRUE)
        /\ m2 = TokensWhere(w2, w1, 1, TRUE)
        /\ UnmarkedFrom(hl.res.h1, 1) = Concat(TokensWhere(w1, w2, 1, FALSE))
        /\ UnmarkedFrom(hl.res.h2, 1) = Concat(TokensWhere(w2, w1, 1, FALSE))
        /\ \A i \in 1..Len(m1) : m1[i] # <<>>
        /\ \A i \in 1..Len(m2) : m2[i] # <<>>
        /\ \A i \in 1..Len(hl.res.h1) : hl.res.h1[i] # AddedOpen
        /\ \A i \in 1..Len(hl.res.h2) : hl.res.h2[i] # RemovedOpen
        /\ text1 = text2 =>
             hl.res.h1 = hl.res.h2 /\ ~HasTag(hl.res.h1)
        /\ text1.s = <<"a", " ", "b">> /\ text2.s = <<"a", " ", "c">> =>
             /\ hl.res.h1 = <<"a", " ", RemovedOpen, "b", SpanClose>>
             /\ hl.res.h2 = <<"a", " ", AddedOpen, "c", SpanClose>>

\* one side has no token where the other has one that is marked
C9_Witness ==
  /\ hl.done /\ ~hl.res.threw
  /\ text1 = Str(<<"a">>)
  /\ text2 = Str(<<"a", " ", "b">>)
  /\ hl.res.h1 = <<"a">>
  /\ hl.res.h2 = <<"a", AddedOpen, " ", SpanClose, AddedOpen, "b", SpanClose>>

----------------------------------------------------------------------------
(* Claims about compareResponses (Spec, SpecForm) *)

RunIds == 1..Len(runs)

Slots == {"metrics1", "metrics2", "response1", "response2"}

\* run r has written a result (metrics, markup or text) that is on display
ShowsResultOf(r) ==
  \E sl \in Slots : dom[sl].run = r /\ dom[sl].kind \in {"metrics", "html", "text"}

Failed(r) == \E k \in 1..2 : runs[r].calls[k].st = "threw"

Completed(r, k) == runs[r].calls[k].st \in {"returned", "threw"}

\* C1: when a callModel call of a run fails, displayResults does not run for
\* that run and no slot holds a result written by that run.
C1_NoPartialDisplay ==
  \A r \in RunIds :
    Failed(r) => runs[r].outcome # "displayed" /\ ~ShowsResultOf(r)

\* a run failed by its second call after its first call had returned
C1_Witness ==
  \E r \in RunIds :
    /\ runs[r].outcome = "error"
    /\ runs[r].calls[1].st = "returned"
    /\ runs[r].calls[2].st = "threw"

SomeEmpty == \E n \in FieldNames : form[n] = ""

\* C3: a click with an empty required field issues no request, starts no
\* run and leaves the loading indicator, the results container and the four
\* slots as they were.
C3_InvalidClickNoEffect ==
  [][SomeEmpty /\ last'.op \in {"alert", "compare"} /\ last' # last
       => /\ fetchCount' = fetchCount
          /\ runs' = runs
          /\ dom' = dom
          /\ last'.op = "alert"]_vars

\* an invalid click was rejected while a run was in flight
C3_Witness ==
  /\ last.op = "alert"
  /\ form["prompt"] = ""
  /\ fetchCount = 2
  /\ Len(runs) = 1 /\ runs[1].pc = "awaiting"
  /\ dom.loading = "block"

\* C4: right after a run has ended in an error the loading indicator is
\* hidden, the results container is visible, both metrics slots and the
\* second response slot are empty and the first response slot holds the
\* error panel with the run's message.
C4_ErrorPresentation ==
  last.op = "error" =>
    /\ dom.loading = "none"
    /\ dom.results = "block"
    /\ dom.metrics1 = EmptySlot
    /\ dom.metrics2 = EmptySlot
    /\ dom.response2 = EmptySlot
    /\ dom.response1 = ErrorPanel(last.run, runs[last.run].error)
    /\ runs[last.run].error # ""

\* run 2 ended in an error raised while displaying its results, after run 1
\* had displayed results
C4_Witness ==
  /\ last = [op |-> "error", run |-> 2]
  /\ runs[1].outcome = "displayed"
  /\ runs[2].error = ErrPrefix \o ErrTypeSplit
  /\ \A k \in 1..2 : runs[2].calls[k].st = "returned"

\* C10: the loading indicator is visible whenever a started run has not
\* yet shown results or an error.
C10_LoadingWhileInFlight ==
  (\E r \in RunIds : runs[r].pc = "awaiting") => dom.loading = "block"

====
